---- MODULE Spec2Model ----
(***************************************************************************)
(* A model of the Jarvis chat-assistant API (src/server.js, the complete   *)
(* snapshot at lines 22-360): the per-IP rate limiter, the site key, the   *)
(* content syncer with its suspension points, the sync throttle, the       *)
(* retrieval scorer and the two POST handlers.                             *)
(*                                                                         *)
(* A JavaScript string is a sequence of one-character strings, so that the *)
(* string operations of the code (trim, toLowerCase, replace, includes,    *)
(* slice, split) are computed and not assumed.                             *)
(***************************************************************************)
EXTENDS Integers, Sequences, FiniteSets, Bags, TLC

\* ------------------------------------------------------------------------
\* Bounds of the model
\* ------------------------------------------------------------------------

\* requests that arrive in one behaviour of Spec
MaxReqs == 2
\* clock steps in one behaviour
MaxTicks == 2
\* requests over the rate limit that one client of SpecRate sends in a window
MaxOver == 1
\* the documents of the index pickTopDocs is called on
MaxDocs == 4
\* the pieces the texts given to cleanHtmlToText are made of
MaxPieces == 3

\* ------------------------------------------------------------------------
\* Program constants
\* ------------------------------------------------------------------------

RATE_WINDOW_MS == 60000
RATE_MAX == 60
SYNC_COOLDOWN_MS == 5 * 60000
\* if (text.length < 40) continue;
MIN_TEXT_LEN == 40
\* pickTopDocs(siteKey, userText, 3)
TOP_K == 3
\* if (chatLogs.length > 200) chatLogs.shift();
LOG_MAX == 200
\* best.text.slice(0, 320)
SNIPPET_LEN == 320

\* Date.now() is positive: the clock starts at an arbitrary positive instant
StartTime == RATE_WINDOW_MS

\* ------------------------------------------------------------------------
\* JavaScript string operations
\* ------------------------------------------------------------------------

Min(S) == CHOOSE x \in S : \A y \in S : x <= y
Max(S) == CHOOSE x \in S : \A y \in S : x >= y

UpperChars == <<"A","B","C","D","E","F","G","H","I","J","K","L","M",
                "N","O","P","Q","R","S","T","U","V","W","X","Y","Z">>
LowerChars == <<"a","b","c","d","e","f","g","h","i","j","k","l","m",
                "n","o","p","q","r","s","t","u","v","w","x","y","z">>

LowerOf ==
    [c \in {UpperChars[i] : i \in 1..26} |-> LowerChars[CHOOSE i \in 1..26 : UpperChars[i] = c]]

LowerChar(c) == IF c \in DOMAIN LowerOf THEN LowerOf[c] ELSE c

\* String.prototype.toLowerCase
toLowerCase(s) == [i \in 1..Len(s) |-> LowerChar(s[i])]

\* the characters \s matches (of those the model's inputs use)
IsSpace(c) == c \in {" ", "\n", "\t", "\r"}

\* String.prototype.trim
trim(s) ==
    LET keep == {i \in 1..Len(s) : ~IsSpace(s[i])}
    IN  IF keep = {} THEN <<>> ELSE SubSeq(s, Min(keep), Max(keep))

\* s.slice(0, n)
slice0(s, n) == SubSeq(s, 1, IF Len(s) < n THEN Len(s) ELSE n)

\* s.slice(n)
dropFirst(s, n) == SubSeq(s, n + 1, Len(s))

\* whether p occurs in s at index i (1-based)
At(s, i, p) ==
    /\ i >= 1
    /\ i + Len(p) - 1 <= Len(s)
    /\ \A j \in 1..Len(p) : s[i + j - 1] = p[j]

\* the same, ignoring case (the i flag of a regular expression whose pattern p is lower-case)
AtCI(s, i, p) ==
    /\ i >= 1
    /\ i + Len(p) - 1 <= Len(s)
    /\ \A j \in 1..Len(p) : LowerChar(s[i + j - 1]) = p[j]

\* String.prototype.includes
includes(s, p) == \E i \in 1..(Len(s) - Len(p) + 1) : At(s, i, p)

\* s.replace(/\/$/, "")
stripTrailingSlash(s) ==
    IF Len(s) > 0 /\ s[Len(s)] = "/" THEN SubSeq(s, 1, Len(s) - 1) ELSE s

\* s.split(/\s+/).filter(Boolean)
RECURSIVE splitWords(_)
splitWords(s) ==
    IF s = <<>> THEN <<>>
    ELSE IF IsSpace(Head(s)) THEN splitWords(Tail(s))
    ELSE LET stops == {i \in 1..Len(s) : IsSpace(s[i])}
             n == IF stops = {} THEN Len(s) ELSE Min(stops) - 1
         IN  <<SubSeq(s, 1, n)>> \o splitWords(dropFirst(s, n))

\* ------------------------------------------------------------------------
\* Helpers of the server
\* ------------------------------------------------------------------------

\* function normDomain(d = "")
normDomain(d) ==
    LET l == toLowerCase(d)
    IN  trim(IF At(l, 1, <<"w","w","w",".">>) THEN dropFirst(l, 4) ELSE l)

DefaultKey == <<"d","e","f","a","u","l","t">>

\* function getSiteKey({ siteId = "", domain = "" })
getSiteKey(siteId, domain) ==
    LET d == normDomain(domain)
        s == trim(toLowerCase(siteId))
    IN  IF d # <<>> THEN d ELSE IF s # <<>> THEN s ELSE DefaultKey

\* function isWakePhrase(text = "")
\* isWakePhrase comparing without toLowerCase
isWakePhrase_caseSensitive(text) ==
    LET t == trim(text)
    IN  t = <<"h","e","y"," ","j","a","r","v","i","s">> \/ t = <<"h","e","y"," ","j","a","r","v","i","s",".">> \/ t = <<"h","e","y"," ","j","a","r","v","i","s","!">>

isWakePhrase(text) ==
    LET t == toLowerCase(trim(text))
    IN  t = <<"h","e","y"," ","j","a","r","v","i","s">> \/ t = <<"h","e","y"," ","j","a","r","v","i","s",".">> \/ t = <<"h","e","y"," ","j","a","r","v","i","s","!">>

\* function isBookingIntent(text = "")
\* isBookingIntent searching without toLowerCase
isBookingIntent_caseSensitive(text) ==
    LET t == text
    IN  \/ includes(t, <<"b","o","o","k">>)
        \/ includes(t, <<"b","o","o","k","i","n","g">>)
        \/ includes(t, <<"a","p","p","o","i","n","t","m","e","n","t">>)
        \/ includes(t, <<"s","c","h","e","d","u","l","e">>)
        \/ includes(t, <<"r","e","s","e","r","v","e">>)
        \/ includes(t, <<"c","o","n","s","u","l","t","a","t","i","o","n">>)
        \/ (includes(t, <<"c","a","l","l">>) /\ includes(t, <<"b","o","o","k">>))

isBookingIntent(text) ==
    LET t == toLowerCase(text)
    IN  \/ includes(t, <<"b","o","o","k">>)
        \/ includes(t, <<"b","o","o","k","i","n","g">>)
        \/ includes(t, <<"a","p","p","o","i","n","t","m","e","n","t">>)
        \/ includes(t, <<"s","c","h","e","d","u","l","e">>)
        \/ includes(t, <<"r","e","s","e","r","v","e">>)
        \/ includes(t, <<"c","o","n","s","u","l","t","a","t","i","o","n">>)
        \/ (includes(t, <<"c","a","l","l">>) /\ includes(t, <<"b","o","o","k">>))

\* first index j >= i with s[j] = c; 0 when there is none
FirstChar(s, i, c) ==
    LET js == {j \in i..Len(s) : s[j] = c}
    IN  IF js = {} THEN 0 ELSE Min(js)

\* first index k >= i where p occurs ignoring case; 0 when there is none
FirstAtCI(s, i, p) ==
    LET ks == {k \in i..Len(s) : AtCI(s, k, p)}
    IN  IF ks = {} THEN 0 ELSE Min(ks)

\* length of the run of white space that starts at index i
RunLen(s, i) ==
    LET stops == {j \in i..Len(s) : ~IsSpace(s[j])}
    IN  IF stops = {} THEN Len(s) - i + 1 ELSE Min(stops) - i

\* /<open[\s\S]*?>[\s\S]*?<close>/i at index i: the length matched, 0 when none
BlockLen(s, i, open, close) ==
    IF ~AtCI(s, i, open) THEN 0
    ELSE LET j == FirstChar(s, i + Len(open), ">")
         IN  IF j = 0 THEN 0
             ELSE LET k == FirstAtCI(s, j + 1, close)
                  IN  IF k = 0 THEN 0 ELSE k + Len(close) - i

\* /<br\s*\/?>/i at index i
BrLen(s, i) ==
    IF ~AtCI(s, i, <<"<","b","r">>) THEN 0
    ELSE LET b == i + 3 + RunLen(s, i + 3)
             c == IF b <= Len(s) /\ s[b] = "/" THEN b + 1 ELSE b
         IN  IF c <= Len(s) /\ s[c] = ">" THEN c - i + 1 ELSE 0

\* /<[^>]+>/ at index i
TagLen(s, i) ==
    IF s[i] # "<" THEN 0
    ELSE LET j == FirstChar(s, i + 1, ">")
         IN  IF j >= i + 2 THEN j - i + 1 ELSE 0

\* the length the regular expression re of cleanHtmlToText matches at index i
MatchLen(re, s, i) ==
    CASE re = "script" -> BlockLen(s, i, <<"<","s","c","r","i","p","t">>, <<"<","/","s","c","r","i","p","t",">">>)
      [] re = "style"  -> BlockLen(s, i, <<"<","s","t","y","l","e">>, <<"<","/","s","t","y","l","e",">">>)
      [] re = "p"      -> IF AtCI(s, i, <<"<","/","p",">">>) THEN 4 ELSE 0
      [] re = "br"     -> BrLen(s, i)
      [] re = "tag"    -> TagLen(s, i)
      [] re = "ws"     -> IF IsSpace(s[i]) THEN RunLen(s, i) ELSE 0

\* s.replace(re, rep) with the g flag, scanning from index i: the leftmost match at or
\* after i is replaced and the scan goes on behind it; m holds the indices where re matches
RECURSIVE replaceFrom(_, _, _, _, _)
replaceFrom(re, s, i, rep, m) ==
    LET starts == {k \in m : k >= i}
    IN  IF starts = {} THEN SubSeq(s, i, Len(s))
        ELSE LET k == Min(starts)
             IN  SubSeq(s, i, k - 1) \o rep
                 \o replaceFrom(re, s, k + MatchLen(re, s, k), rep, m)

\* s.replace(re, rep); s is evaluated once, before the scan
replaceAll(re, s, rep) ==
    CHOOSE out \in {replaceFrom(re, v, 1, rep, {k \in 1..Len(v) : MatchLen(re, v, k) > 0}) :
                       v \in {s}} : TRUE

\* function cleanHtmlToText(html = "")
cleanHtmlToText(html) ==
    LET a == replaceAll("script", html, <<" ">>)
        b == replaceAll("style", a, <<" ">>)
        c == replaceAll("p", b, <<"\n">>)
        d == replaceAll("br", c, <<"\n">>)
        e == replaceAll("tag", d, <<" ">>)
        f == replaceAll("ws", e, <<" ">>)
    IN  trim(f)

\* the for loop of scoreDoc over the query words q
RECURSIVE scoreWords(_, _)
scoreWords(q, d) ==
    IF q = <<>> THEN 0
    ELSE (IF Len(Head(q)) >= 3 /\ includes(d, Head(q)) THEN 2 ELSE 0)
         + scoreWords(Tail(q), d)

\* function scoreDoc(query, docText)
scoreDoc(query, docText) ==
    scoreWords(splitWords(toLowerCase(query)), toLowerCase(docText))

\* .filter((p) => p._score > 0)
RECURSIVE filterHits(_)
filterHits(xs) ==
    IF xs = <<>> THEN <<>>
    ELSE (IF Head(xs).score > 0 THEN <<Head(xs)>> ELSE <<>>) \o filterHits(Tail(xs))

\* a sort that puts a document before the earlier documents of the same score
RECURSIVE insertByScore_unstable(_, _)
insertByScore_unstable(x, ys) ==
    IF ys = <<>> THEN <<x>>
    ELSE IF Head(ys).score > x.score THEN <<Head(ys)>> \o insertByScore_unstable(x, Tail(ys))
    ELSE <<x>> \o ys

\* insert x into ys, sorted by score descending, after every element that does not
\* sort after it: Array.prototype.sort is stable
RECURSIVE insertByScore(_, _)
insertByScore(x, ys) ==
    IF ys = <<>> THEN <<x>>
    ELSE IF Head(ys).score >= x.score THEN <<Head(ys)>> \o insertByScore(x, Tail(ys))
    ELSE <<x>> \o ys

\* xs.sort((a, b) => b._score - a._score)
RECURSIVE sortByScore(_)
sortByScore(xs) ==
    IF xs = <<>> THEN <<>>
    ELSE insertByScore(xs[Len(xs)], sortByScore(SubSeq(xs, 1, Len(xs) - 1)))

\* a site entry that is missing from a Map: Map.prototype.get returns undefined
Undefined == [absent |-> TRUE]

\* siteStore.get(siteKey), syncState.get(siteKey), rateMap.get(ip)
mapGet(m, k) == IF k \in DOMAIN m THEN m[k] ELSE Undefined

\* m.set(k, v)
mapSet(m, k, v) == [x \in DOMAIN m \cup {k} |-> IF x = k THEN v ELSE m[x]]

\* function pickTopDocs(siteKey, query, topK = 3), given the site store
pickTopDocs(store, siteKey, query, topK) ==
    LET site == mapGet(store, siteKey)
    IN  IF site = Undefined THEN <<>>
        ELSE IF Len(site.pages) = 0 THEN <<>>
        ELSE LET scored == [i \in 1..Len(site.pages) |->
                               [id |-> site.pages[i].id, title |-> site.pages[i].title,
                                url |-> site.pages[i].url, text |-> site.pages[i].text,
                                score |-> scoreDoc(query, site.pages[i].text)]]
                 hits == filterHits(scored)
             IN  slice0(sortByScore(hits), topK)

\* ------------------------------------------------------------------------
\* new URL(u), for the absolute http(s) URLs and the scheme-less strings the
\* model's requests carry
\* ------------------------------------------------------------------------

urlScheme(u) ==
    IF AtCI(u, 1, <<"h","t","t","p","s",":","/","/">>) THEN <<"h","t","t","p","s",":","/","/">>
    ELSE IF AtCI(u, 1, <<"h","t","t","p",":","/","/">>) THEN <<"h","t","t","p",":","/","/">>
    ELSE <<>>

\* new URL(u).host
urlHost(u) ==
    LET t == trim(u)
        rest == dropFirst(t, Len(urlScheme(t)))
        stops == {i \in 1..Len(rest) : rest[i] \in {"/", "?", "#"}}
        n == IF stops = {} THEN Len(rest) ELSE Min(stops) - 1
    IN  toLowerCase(SubSeq(rest, 1, n))

\* whether new URL(u) throws
urlThrows(u) == urlScheme(trim(u)) = <<>> \/ urlHost(u) = <<>>

\* new URL(u).origin
urlOrigin(u) == urlScheme(trim(u)) \o urlHost(u)

\* ------------------------------------------------------------------------
\* State
\* ------------------------------------------------------------------------

VARIABLES
    now,        \* Date.now()
    rateMap,    \* ip -> [count, resetAt]
    siteStore,  \* siteKey -> [pages, updatedAt, siteUrl]
    syncState,  \* siteKey -> [lastSyncAt]
    chatLogs,   \* the chat log, oldest first
    inflight,   \* the bag of handlers suspended at an await of syncSiteContent
    nreqs,      \* requests the clients of Spec and SpecChat have sent so far
    lastRes,    \* the response the last step sent, NoResponse when it sent none
    fetchLog,   \* history: one entry per call of syncSiteContent (a pages/posts fetch pair)
    call,       \* the call of a helper function on its own: [fn, arg, out]
    cleaned     \* cleanHtmlToText of the content the remote API serves, computed once

vars == <<now, rateMap, siteStore, syncState, chatLogs, inflight, nreqs, lastRes,
          fetchLog, call, cleaned>>

EmptyMap == <<>>

\* ------------------------------------------------------------------------
\* Rate limiter
\* ------------------------------------------------------------------------

\* the first entry of a comma-separated header value: s.split(",")[0]
firstField(s) ==
    LET commas == {i \in 1..Len(s) : s[i] = ","}
    IN  IF commas = {} THEN s ELSE SubSeq(s, 1, Min(commas) - 1)

\* function getIP(req); an absent header or address is the empty string
getIP(req) ==
    LET f == trim(firstField(req.xff))
    IN  IF f # <<>> THEN f
        ELSE IF req.remote # <<>> THEN req.remote
        ELSE <<"u","n","k","n","o","w","n">>

\* rateLimit with the ceiling tested by >= : the request that brings the count to RATE_MAX
\* is rejected
rateLimit_atCeiling(map, ip, t) ==
    LET entry == mapGet(map, ip)
    IN  IF entry = Undefined \/ t > entry.resetAt
        THEN [map  |-> mapSet(map, ip, [count |-> 1, resetAt |-> t + RATE_WINDOW_MS]),
              pass |-> TRUE]
        ELSE [map  |-> mapSet(map, ip, [count |-> entry.count + 1, resetAt |-> entry.resetAt]),
              pass |-> ~(entry.count + 1 >= RATE_MAX)]

\* function rateLimit(req, res, next): the map after the call, and whether next() ran
rateLimit(map, ip, t) ==
    LET entry == mapGet(map, ip)
    IN  IF entry = Undefined \/ t > entry.resetAt
        THEN [map  |-> mapSet(map, ip, [count |-> 1, resetAt |-> t + RATE_WINDOW_MS]),
              pass |-> TRUE]
        ELSE [map  |-> mapSet(map, ip, [count |-> entry.count + 1, resetAt |-> entry.resetAt]),
              pass |-> ~(entry.count + 1 > RATE_MAX)]

\* ------------------------------------------------------------------------
\* Response payloads (typographic characters of the source are written in ASCII)
\* ------------------------------------------------------------------------

\* keys: the properties the JSON payload has
Payload ==
    [keys |-> {}, replyText |-> "", snippet |-> <<>>, more |-> FALSE,
     actions |-> <<>>, sources |-> <<>>, meta |-> Undefined,
     ok |-> FALSE, error |-> "", siteKey |-> <<>>, base |-> <<>>, count |-> 0]

TooManyPayload ==
    [Payload EXCEPT !.keys = {"replyText"},
                    !.replyText = "Too many requests. Please try again in a minute."]

GreetingPayload ==
    [Payload EXCEPT !.keys = {"replyText"}, !.replyText = "How can I help you?"]

BookingPayload(url) ==
    [Payload EXCEPT !.keys = {"replyText", "actions"},
                    !.replyText = "Sure -- I'm taking you to the booking page now.",
                    !.actions = <<[type |-> "open_url", url |-> url]>>]

BookingSetupPayload ==
    [Payload EXCEPT !.keys = {"replyText"},
                    !.replyText = "Sure -- I can help you book. Please set your Booking Page URL in WordPress -> Jarvis settings."]

\* a reply citing the best document only
FoundPayload_bestOnly(store, siteKey, topDocs) ==
    [Payload EXCEPT !.keys = {"replyText", "sources", "meta"},
                    !.replyText = "Here's what I found on this website:\n\n${snippet}${more}\n\nIf you tell me what you want (pricing, services, location, contact), I'll guide you.",
                    !.snippet = slice0(topDocs[1].text, SNIPPET_LEN),
                    !.more = Len(topDocs[1].text) > SNIPPET_LEN,
                    !.sources = [i \in 1..1 |->
                                    [title |-> topDocs[i].title, url |-> topDocs[i].url]],
                    !.meta = [learned |-> TRUE, siteKey |-> siteKey,
                              updatedAt |-> mapGet(store, siteKey).updatedAt,
                              found |-> Len(topDocs)]]

FoundPayload(store, siteKey, topDocs) ==
    [Payload EXCEPT !.keys = {"replyText", "sources", "meta"},
                    !.replyText = "Here's what I found on this website:\n\n${snippet}${more}\n\nIf you tell me what you want (pricing, services, location, contact), I'll guide you.",
                    !.snippet = slice0(topDocs[1].text, SNIPPET_LEN),
                    !.more = Len(topDocs[1].text) > SNIPPET_LEN,
                    !.sources = [i \in 1..Len(topDocs) |->
                                    [title |-> topDocs[i].title, url |-> topDocs[i].url]],
                    !.meta = [learned |-> TRUE, siteKey |-> siteKey,
                              updatedAt |-> mapGet(store, siteKey).updatedAt,
                              found |-> Len(topDocs)]]

LearningPayload(siteKey) ==
    [Payload EXCEPT !.keys = {"replyText", "meta"},
                    !.replyText = "I'm still learning this website. Try asking about services, pricing, contact, or booking -- and I'll guide you.",
                    !.meta = [learned |-> FALSE, siteKey |-> siteKey]]

SiteUrlRequiredPayload ==
    [Payload EXCEPT !.keys = {"ok", "error"}, !.error = "siteUrl is required"]

SyncOkPayload(siteKey, count) ==
    [Payload EXCEPT !.keys = {"ok", "siteKey", "count", "updatedAt"},
                    !.ok = TRUE, !.siteKey = siteKey, !.count = count]

SyncFailedPayload(siteKey, base) ==
    [Payload EXCEPT !.keys = {"ok", "error", "details", "siteKey", "base"},
                    !.error = "Sync failed", !.siteKey = siteKey, !.base = base]

\* sync: whether the request called syncSiteContent, and how the call ended
Response(route, req, status, payload, sync) ==
    [route |-> route, req |-> req, status |-> status, payload |-> payload, sync |-> sync]

NoResponse == Response("", Undefined, 0, Payload, "none")

\* ------------------------------------------------------------------------
\* Sync throttle and syncSiteContent
\* ------------------------------------------------------------------------

\* a throttle that is over as soon as the cooldown has passed
shouldSync_atCooldown(state, siteKey, t) ==
    LET st == mapGet(state, siteKey)
    IN  IF st = Undefined THEN TRUE ELSE (t - st.lastSyncAt) >= SYNC_COOLDOWN_MS

\* function shouldSync(siteKey)
shouldSync(state, siteKey, t) ==
    LET st == mapGet(state, siteKey)
    IN  IF st = Undefined THEN TRUE ELSE (t - st.lastSyncAt) > SYNC_COOLDOWN_MS

\* function markSynced(siteKey)
markSynced(state, siteKey, t) == mapSet(state, siteKey, [lastSyncAt |-> t])

\* items of the remote content API: [id, link, title.rendered, content.rendered]
PricingPage ==
    [id |-> 11, link |-> "https://example.com/pricing", title |-> "Pricing",
     html |-> <<"<","h","1",">","P","r","i","c","i","n","g","<","/","h","1",">","<","p",">","O","u","r"," ","p","r","i","c","i","n","g"," ","s","t","a","r","t","s"," ","a","t"," ","t","e","n"," ","d","o","l","l","a","r","s"," ","p","e","r"," ","m","o","n","t","h",".","<","/","p",">">>]
ContactPage ==
    [id |-> 12, link |-> "https://example.com/contact", title |-> "",
     html |-> <<"<","p",">","C","o","n","t","a","c","t"," ","<","b",">","u","s","<","/","b",">","<","/","p",">","<","s","c","r","i","p","t",">","v","a","r"," ","h","o","u","r","s"," ","="," ","1"," ",">"," ","0",";","<","/","s","c","r","i","p","t",">">>]
PlansPost ==
    [id |-> 21, link |-> "https://example.com/blog/plans", title |-> "Plans",
     html |-> <<"<","p",">","W","e"," ","o","f","f","e","r"," ","w","e","b"," ","d","e","s","i","g","n"," ","a","n","d"," ","h","o","s","t","i","n","g"," ","p","l","a","n","s",".","<","b","r","/",">","O","p","e","n","i","n","g"," ","h","o","u","r","s",":"," ","9"," ","t","o"," ","5","<","/","p",">">>]

\* cleanHtmlToText(html), read from the table `cleaned` where it holds html
cleanText(html) == IF html \in DOMAIN cleaned THEN cleaned[html] ELSE cleanHtmlToText(html)

\* the loop of syncSiteContent without its `continue`
RECURSIVE buildDocs_keepAll(_)
buildDocs_keepAll(items) ==
    IF items = <<>> THEN <<>>
    ELSE LET p == Head(items)
         IN  <<[id |-> p.id,
                title |-> IF p.title # "" THEN p.title ELSE "Untitled",
                url |-> p.link,
                text |-> cleanText(p.html)]>>
             \o buildDocs_keepAll(Tail(items))

\* the loop of syncSiteContent over [...pagesJson, ...postsJson]
RECURSIVE buildDocs(_)
buildDocs(items) ==
    IF items = <<>> THEN <<>>
    ELSE LET p == Head(items)
             text == cleanText(p.html)
         IN  (IF Len(text) < MIN_TEXT_LEN THEN <<>>
              ELSE <<[id |-> p.id,
                      title |-> IF p.title # "" THEN p.title ELSE "Untitled",
                      url |-> p.link,
                      text |-> text]>>)
             \o buildDocs(Tail(items))

\* the value syncSiteContent stores: siteStore.set(siteKey, {...})
storeEntry(docs, t, base) == [pages |-> docs, updatedAt |-> t, siteUrl |-> base]

\* ------------------------------------------------------------------------
\* POST /v1/chat and POST /v1/site/sync: the synchronous turn of a request
\* ------------------------------------------------------------------------

\* what a turn leaves behind: the two maps it may write, and either the response it
\* sent or (await) the call of syncSiteContent it is suspended in
Turn(map, log, await, status, payload, siteKey, base) ==
    [rateMap |-> map, chatLogs |-> log, await |-> await, status |-> status,
     payload |-> payload, siteKey |-> siteKey, base |-> base]

\* const d = normDomain(domain); const siteKey = getSiteKey({ siteId, domain: d });
chatSiteKey(body) == getSiteKey(body.siteId, normDomain(body.domain))

\* the entry chatLogs.push receives
logEntry(body, siteKey, t) ==
    [ts |-> t, siteKey |-> siteKey,
     sessionId |-> slice0(body.sessionId, 80),
     text |-> slice0(trim(body.text), 400),
     pageUrl |-> slice0(body.pageUrl, 200)]

\* a log that drops the entry just pushed when it is full
pushLog_dropNewest(log, e) ==
    LET l == Append(log, e)
    IN  IF Len(l) > LOG_MAX THEN SubSeq(l, 1, LOG_MAX) ELSE l

\* chatLogs.push(e); if (chatLogs.length > 200) chatLogs.shift();
pushLog(log, e) ==
    LET l == Append(log, e)
    IN  IF Len(l) > LOG_MAX THEN Tail(l) ELSE l

\* const hasSynced = !!(existing && Array.isArray(existing.pages) && existing.pages.length);
hasSynced(store, siteKey) ==
    LET existing == mapGet(store, siteKey)
    IN  existing # Undefined /\ Len(existing.pages) > 0

\* the auto-sync preferring the domain to the page URL
chatBase_domainFirst(body) ==
    LET d == normDomain(body.domain)
        fromSiteUrl == stripTrailingSlash(trim(body.siteUrl))
    IN  IF fromSiteUrl # <<>> THEN fromSiteUrl
        ELSE IF d # <<>> THEN <<"h","t","t","p","s",":","/","/">> \o d
        ELSE IF body.pageUrl # <<>> /\ ~urlThrows(body.pageUrl) THEN urlOrigin(body.pageUrl)
        ELSE <<>>

\* the base URL the auto-sync uses; <<>> when none can be determined
chatBase(body) ==
    LET d == normDomain(body.domain)
        fromSiteUrl == stripTrailingSlash(trim(body.siteUrl))
        fromPageUrl ==
            IF fromSiteUrl # <<>> THEN fromSiteUrl
            ELSE IF body.pageUrl # <<>> /\ ~urlThrows(body.pageUrl) THEN urlOrigin(body.pageUrl)
            ELSE <<>>
    IN  IF fromPageUrl = <<>> /\ d # <<>> THEN <<"h","t","t","p","s",":","/","/">> \o d ELSE fromPageUrl

\* Site Q&A: pickTopDocs and the reply built from it
chatAnswer(store, body, siteKey) ==
    LET topDocs == pickTopDocs(store, siteKey, trim(body.text), TOP_K)
    IN  IF Len(topDocs) > 0 THEN FoundPayload(store, siteKey, topDocs)
        ELSE LearningPayload(siteKey)

\* POST /v1/chat with the limiter called after the log entry is pushed
chatTurn_logFirst(req) ==
    LET rl == rateLimit(rateMap, getIP(req), now)
        body == req.body
        userText == trim(body.text)
        siteKey == chatSiteKey(body)
        log == pushLog(chatLogs, logEntry(body, siteKey, now))
        url == trim(body.bookingUrl)
        base == chatBase(body)
    IN  IF ~rl.pass
        THEN Turn(rl.map, log, FALSE, 429, TooManyPayload, <<>>, <<>>)
        ELSE IF isWakePhrase(userText)
        THEN Turn(rl.map, log, FALSE, 200, GreetingPayload, siteKey, <<>>)
        ELSE IF isBookingIntent(userText)
        THEN Turn(rl.map, log, FALSE, 200,
                  IF url # <<>> THEN BookingPayload(url) ELSE BookingSetupPayload,
                  siteKey, <<>>)
        ELSE IF ~hasSynced(siteStore, siteKey) /\ shouldSync(syncState, siteKey, now)
                /\ base # <<>>
        THEN Turn(rl.map, log, TRUE, 0, Payload, siteKey, base)
        ELSE Turn(rl.map, log, FALSE, 200, chatAnswer(siteStore, body, siteKey), siteKey, <<>>)

\* POST /v1/chat from rateLimit to its response or to the await of the auto-sync
chatTurn(req) ==
    LET rl == rateLimit(rateMap, getIP(req), now)
        body == req.body
        userText == trim(body.text)
        siteKey == chatSiteKey(body)
        log == pushLog(chatLogs, logEntry(body, siteKey, now))
        url == trim(body.bookingUrl)
        base == chatBase(body)
    IN  IF ~rl.pass
        THEN Turn(rl.map, chatLogs, FALSE, 429, TooManyPayload, <<>>, <<>>)
        ELSE IF isWakePhrase(userText)
        THEN Turn(rl.map, log, FALSE, 200, GreetingPayload, siteKey, <<>>)
        ELSE IF isBookingIntent(userText)
        THEN Turn(rl.map, log, FALSE, 200,
                  IF url # <<>> THEN BookingPayload(url) ELSE BookingSetupPayload,
                  siteKey, <<>>)
        ELSE IF ~hasSynced(siteStore, siteKey) /\ shouldSync(syncState, siteKey, now)
                /\ base # <<>>
        THEN Turn(rl.map, log, TRUE, 0, Payload, siteKey, base)
        ELSE Turn(rl.map, log, FALSE, 200, chatAnswer(siteStore, body, siteKey), siteKey, <<>>)

\* const derivedDomain = (() => { try { ... } catch { ... } })();
derivedDomain(body, base) ==
    IF body.domain # <<>> THEN normDomain(body.domain)
    ELSE IF urlThrows(base) THEN normDomain(body.domain)
    ELSE normDomain(urlHost(base))

\* const siteKey = getSiteKey({ siteId, domain: derivedDomain });
syncSiteKey(body, base) == getSiteKey(body.siteId, derivedDomain(body, base))

\* POST /v1/site/sync from rateLimit to its response or to the await of syncSiteContent
syncTurn(req) ==
    LET rl == rateLimit(rateMap, getIP(req), now)
        body == req.body
        base == stripTrailingSlash(body.siteUrl)
    IN  IF ~rl.pass
        THEN Turn(rl.map, chatLogs, FALSE, 429, TooManyPayload, <<>>, <<>>)
        ELSE IF base = <<>>
        THEN Turn(rl.map, chatLogs, FALSE, 400, SiteUrlRequiredPayload, <<>>, <<>>)
        ELSE Turn(rl.map, chatLogs, TRUE, 0, Payload, syncSiteKey(body, base), base)

\* ------------------------------------------------------------------------
\* Actions
\* ------------------------------------------------------------------------

\* a local variable of syncSiteContent that is not assigned yet
Unset == [json |-> "", items |-> <<>>]

\* the locals pagesRes and postsRes before Promise.all has settled
NoRes == <<>>

\* a handler suspended in syncSiteContent: its request, the arguments of the call, the
\* await it is at and the locals [pagesRes, postsRes] and pagesJson
Handler(route, req, siteKey, base, pc, res, pagesJson) ==
    [route |-> route, req |-> req, siteKey |-> siteKey, base |-> base, pc |-> pc,
     res |-> res, pagesJson |-> pagesJson]

At_(h, pc) == [h EXCEPT !.pc = pc]

One(h) == SetToBag({h})

\* a server that starts no sync of a site key while one is in flight: the request is
\* answered from what the index holds
Arrive_coalesced(route, req, t) ==
    /\ rateMap' = t.rateMap
    /\ chatLogs' = t.chatLogs
    /\ IF t.await /\ \A h \in BagToSet(inflight) : h.siteKey # t.siteKey
       THEN /\ inflight' = inflight (+) One(Handler(route, req, t.siteKey, t.base, "fetch", NoRes,
                                                    Unset))
            /\ fetchLog' = Append(fetchLog, [req |-> req, siteKey |-> t.siteKey,
                                             base |-> t.base, at |-> now])
            /\ lastRes' = NoResponse
       ELSE /\ lastRes' = Response(route, req, IF t.await THEN 200 ELSE t.status,
                                   IF t.await THEN chatAnswer(siteStore, req.body, t.siteKey)
                                   ELSE t.payload, "none")
            /\ UNCHANGED <<inflight, fetchLog>>
    /\ UNCHANGED <<now, siteStore, syncState, call, cleaned>>

\* a request arrives on `route` and runs its synchronous turn t: it either answers, or
\* calls syncSiteContent, which issues the two fetches and suspends at Promise.all
Arrive(route, req, t) ==
    /\ rateMap' = t.rateMap
    /\ chatLogs' = t.chatLogs
    /\ IF t.await
       THEN /\ inflight' = inflight (+) One(Handler(route, req, t.siteKey, t.base, "fetch", NoRes,
                                                    Unset))
            /\ fetchLog' = Append(fetchLog, [req |-> req, siteKey |-> t.siteKey,
                                             base |-> t.base, at |-> now])
            /\ lastRes' = NoResponse
       ELSE /\ lastRes' = Response(route, req, t.status, t.payload, "none")
            /\ UNCHANGED <<inflight, fetchLog>>
    /\ UNCHANGED <<now, siteStore, syncState, call, cleaned>>

ChatRequest(req) == Arrive("chat", req, chatTurn(req))

SyncRequest(req) == Arrive("sync", req, syncTurn(req))

\* the callers of syncSiteContent without the try/catch of the chat handler: a sync that
\* throws ends either request with an error response
Resume_uncaught(h, ok, store) ==
    /\ inflight' = inflight (-) One(h)
    /\ lastRes' =
         IF ~ok
         THEN Response(h.route, h.req, 500, SyncFailedPayload(h.siteKey, h.base), "failed")
         ELSE IF h.route = "chat"
         THEN Response(h.route, h.req, 200, chatAnswer(store, h.req.body, h.siteKey), "ok")
         ELSE Response(h.route, h.req, 200,
                       SyncOkPayload(h.siteKey, Len(store[h.siteKey].pages)), "ok")

\* the caller of syncSiteContent resumes: the chat handler answers from the store
\* whether the sync returned or threw, the sync handler answers 200 or 500
Resume(h, ok, store) ==
    /\ inflight' = inflight (-) One(h)
    /\ lastRes' =
         IF h.route = "chat"
         THEN Response(h.route, h.req, 200, chatAnswer(store, h.req.body, h.siteKey),
                       IF ok THEN "ok" ELSE "failed")
         ELSE IF ok
         THEN Response(h.route, h.req, 200,
                       SyncOkPayload(h.siteKey, Len(store[h.siteKey].pages)), "ok")
         ELSE Response(h.route, h.req, 500, SyncFailedPayload(h.siteKey, h.base), "failed")

\* syncSiteContent calling markSynced also when it throws
SyncThrow_marked(h) ==
    /\ Resume(h, FALSE, siteStore)
    /\ syncState' = markSynced(syncState, h.siteKey, now)
    /\ UNCHANGED <<now, rateMap, siteStore, chatLogs, nreqs, fetchLog, call, cleaned>>

\* syncSiteContent throws
SyncThrow(h) ==
    /\ Resume(h, FALSE, siteStore)
    /\ UNCHANGED <<now, rateMap, siteStore, syncState, chatLogs, nreqs, fetchLog, call, cleaned>>

\* syncSiteContent moves on to its next await
SyncGoto(h, next) ==
    /\ inflight' = (inflight (-) One(h)) (+) One(next)
    /\ lastRes' = NoResponse
    /\ UNCHANGED <<now, rateMap, siteStore, syncState, chatLogs, nreqs, fetchLog, call, cleaned>>

\* syncSiteContent testing pagesRes.ok only
FetchSettle_pagesOnly(h, pr, qr) ==
    /\ BagIn(h, inflight)
    /\ h.pc = "fetch"
    /\ IF pr.neterr \/ qr.neterr THEN SyncThrow(h)
       ELSE IF ~pr.ok THEN SyncGoto(h, [At_(h, "pagesText") EXCEPT !.res = <<pr, qr>>])
       ELSE SyncGoto(h, [At_(h, "pagesJson") EXCEPT !.res = <<pr, qr>>])

\* await Promise.all([fetch(pagesUrl), fetch(postsUrl)]) settles: it rejects when a
\* fetch rejects, else pr and qr are the two responses
FetchSettle(h, pr, qr) ==
    /\ BagIn(h, inflight)
    /\ h.pc = "fetch"
    /\ IF pr.neterr \/ qr.neterr THEN SyncThrow(h)
       ELSE IF ~pr.ok \/ ~qr.ok THEN SyncGoto(h, [At_(h, "pagesText") EXCEPT !.res = <<pr, qr>>])
       ELSE SyncGoto(h, [At_(h, "pagesJson") EXCEPT !.res = <<pr, qr>>])

\* await pagesRes.text().catch(() => "")
PagesText(h) ==
    /\ BagIn(h, inflight)
    /\ h.pc = "pagesText"
    /\ SyncGoto(h, At_(h, "postsText"))

\* await postsRes.text().catch(() => ""); throw new Error(...)
PostsText(h) ==
    /\ BagIn(h, inflight)
    /\ h.pc = "postsText"
    /\ SyncThrow(h)

\* syncSiteContent stamping the entry with updatedAt as soon as the pages are read
PagesJson_stamp(h, parsed) ==
    /\ BagIn(h, inflight)
    /\ h.pc = "pagesJson"
    /\ IF parsed.json = "invalid" THEN SyncThrow(h)
       ELSE /\ inflight' = (inflight (-) One(h))
                             (+) One([At_(h, "postsJson") EXCEPT !.pagesJson = parsed])
            /\ siteStore' =
                 mapSet(siteStore, h.siteKey,
                        storeEntry(IF hasSynced(siteStore, h.siteKey)
                                   THEN siteStore[h.siteKey].pages ELSE <<>>,
                                   now, h.base))
            /\ lastRes' = NoResponse
            /\ UNCHANGED <<now, rateMap, syncState, chatLogs, nreqs, fetchLog, call, cleaned>>

\* const pagesJson = await pagesRes.json(); the body read is `parsed`
PagesJson(h, parsed) ==
    /\ BagIn(h, inflight)
    /\ h.pc = "pagesJson"
    /\ IF parsed.json = "invalid" THEN SyncThrow(h)
       ELSE SyncGoto(h, [At_(h, "postsJson") EXCEPT !.pagesJson = parsed])

\* syncSiteContent returning without the call of markSynced
PostsJson_unmarked(h, parsed) ==
    /\ BagIn(h, inflight)
    /\ h.pc = "postsJson"
    /\ LET docs == buildDocs(h.pagesJson.items \o parsed.items)
           store == mapSet(siteStore, h.siteKey, storeEntry(docs, now, h.base))
       IN  IF parsed.json = "invalid" \/ h.pagesJson.json # "array" \/ parsed.json # "array"
           THEN SyncThrow(h)
           ELSE /\ siteStore' = store
                /\ Resume(h, TRUE, store)
                /\ UNCHANGED <<now, rateMap, syncState, chatLogs, nreqs, fetchLog, call,
                               cleaned>>

\* const postsJson = await postsRes.json(); and the rest of syncSiteContent, which runs
\* to its return without another await: spreading a value that is no array throws
PostsJson(h, parsed) ==
    /\ BagIn(h, inflight)
    /\ h.pc = "postsJson"
    /\ LET docs == buildDocs(h.pagesJson.items \o parsed.items)
           store == mapSet(siteStore, h.siteKey, storeEntry(docs, now, h.base))
       IN  IF parsed.json = "invalid" \/ h.pagesJson.json # "array" \/ parsed.json # "array"
           THEN SyncThrow(h)
           ELSE /\ siteStore' = store
                /\ syncState' = markSynced(syncState, h.siteKey, now)
                /\ Resume(h, TRUE, store)
                /\ UNCHANGED <<now, rateMap, chatLogs, nreqs, fetchLog, call, cleaned>>

\* time passes
Tick(step) ==
    /\ now + step <= StartTime + MaxTicks * step
    /\ now' = now + step
    /\ lastRes' = NoResponse
    /\ UNCHANGED <<rateMap, siteStore, syncState, chatLogs, inflight, nreqs, fetchLog, call, cleaned>>

\* ------------------------------------------------------------------------
\* The requests and the upstream answers the model draws from
\* ------------------------------------------------------------------------

Body(text, bookingUrl, siteId, domain, sessionId, pageUrl, siteUrl) ==
    [text |-> text, bookingUrl |-> bookingUrl, siteId |-> siteId, domain |-> domain,
     sessionId |-> sessionId, pageUrl |-> pageUrl, siteUrl |-> siteUrl]

Request(xff, remote, body) == [xff |-> xff, remote |-> remote, body |-> body]

ClientAddr == <<"1","0",".","0",".","0",".","7">>

\* the same client, directly and through a proxy
Direct(body) == Request(<<>>, ClientAddr, body)
Proxied(body) == Request(<<"1","0",".","0",".","0",".","7",","," ","1","7","2",".","1","6",".","0",".","1">>, <<"1","7","2",".","1","6",".","0",".","1">>, body)

WakeChat ==
    Proxied(Body(<<" ","H","e","y"," ","J","a","r","v","i","s","!"," ">>, <<"h","t","t","p","s",":","/","/","x",".","t","e","s","t","/","b","o","o","k">>, <<>>, <<"e","x","a","m","p","l","e",".","c","o","m">>, <<"s","-","1">>,
                 <<>>, <<"h","t","t","p","s",":","/","/","e","x","a","m","p","l","e",".","c","o","m">>))
BookChat ==
    Direct(Body(<<"I"," ","w","a","n","t"," ","t","o"," ","b","o","o","k"," ","a","n"," ","a","p","p","o","i","n","t","m","e","n","t">>, <<"h","t","t","p","s",":","/","/","x",".","t","e","s","t","/","b","o","o","k">>, <<>>,
                <<"e","x","a","m","p","l","e",".","c","o","m">>, <<"s","-","1">>, <<>>, <<"h","t","t","p","s",":","/","/","e","x","a","m","p","l","e",".","c","o","m">>))
BookNoUrlChat ==
    Direct(Body(<<"C","a","l","l"," ","t","o"," ","B","O","O","K"," ","n","o","w">>, <<" ">>, <<>>, <<"e","x","a","m","p","l","e",".","c","o","m">>, <<"s","-","2">>, <<>>, <<>>))
PricingChat ==
    Direct(Body(<<"p","r","i","c","i","n","g"," ","p","l","a","n","s">>, <<>>, <<>>, <<"W","W","W",".","E","x","a","m","p","l","e",".","c","o","m">>, <<"s","-","3">>, <<>>, <<>>))
SiteIdChat ==
    Direct(Body(<<"P","r","i","c","i","n","g">>, <<>>, <<"S","1">>, <<>>, <<"s","-","4">>, <<"n","o","t"," ","a"," ","u","r","l">>, <<>>))

\* the same question with a site URL, a page URL and a domain, and with a page URL and
\* a domain
SiteUrlChat ==
    Direct(Body(<<"p","r","i","c","i","n","g">>, <<>>, <<>>, <<"e","x","a","m","p","l","e",".","c","o","m">>, <<"s","-","5">>,
                <<"h","t","t","p","s",":","/","/","S","h","o","p",".","E","x","a","m","p","l","e",".","c","o","m","/","c","a","r","t","?","x","=","1">>, <<" ","h","t","t","p","s",":","/","/","E","x","a","m","p","l","e",".","c","o","m","/","w","p","/"," ">>))
PageUrlChat ==
    Direct(Body(<<"p","r","i","c","i","n","g">>, <<>>, <<>>, <<"e","x","a","m","p","l","e",".","c","o","m">>, <<"s","-","6">>,
                <<"h","t","t","p","s",":","/","/","S","h","o","p",".","E","x","a","m","p","l","e",".","c","o","m","/","c","a","r","t","?","x","=","1">>, <<>>))

SiteIdSync ==
    Direct(Body(<<>>, <<>>, <<"S","1">>, <<>>, <<>>, <<>>, <<"h","t","t","p","s",":","/","/","E","x","a","m","p","l","e",".","c","o","m","/">>))
NoUrlSync ==
    Direct(Body(<<>>, <<>>, <<"S","1">>, <<"e","x","a","m","p","l","e",".","c","o","m">>, <<>>, <<>>, <<>>))

\* a fetch that rejects (network error), a response with a non-success status, and
\* a response with a success status
NetErr == [neterr |-> TRUE, ok |-> FALSE, status |-> 0]
HttpError(status) == [neterr |-> FALSE, ok |-> FALSE, status |-> status]
HttpOk == [neterr |-> FALSE, ok |-> TRUE, status |-> 200]

\* how the pages fetch and the posts fetch of one sync end
FetchOutcomes ==
    {<<NetErr, HttpOk>>, <<HttpOk, NetErr>>, <<HttpError(500), HttpOk>>,
     <<HttpOk, HttpError(404)>>, <<HttpOk, HttpOk>>}

\* a response body: a JSON array of items, a JSON object, or no JSON at all
Items(items) == [json |-> "array", items |-> items]
JsonObject == [json |-> "object", items |-> <<>>]
NotJson == [json |-> "invalid", items |-> <<>>]

PagesBodies == {NotJson, JsonObject, Items(<<ContactPage>>),
                Items(<<PricingPage, ContactPage>>)}
PostsBodies == {NotJson, Items(<<>>), Items(<<PlansPost>>)}

\* ------------------------------------------------------------------------
\* Specification
\* ------------------------------------------------------------------------

\* no helper is called on its own
NoCall == [fn |-> "", arg |-> Undefined, out |-> Undefined]

\* the server after start-up
ServerInit ==
    /\ now = StartTime
    /\ rateMap = EmptyMap
    /\ siteStore = EmptyMap
    /\ syncState = EmptyMap
    /\ chatLogs = <<>>
    /\ inflight = EmptyBag
    /\ nreqs = 0
    /\ lastRes = NoResponse
    /\ fetchLog = <<>>
    /\ cleaned = [html \in {PricingPage.html, ContactPage.html, PlansPost.html} |->
                     cleanHtmlToText(html)]

Init == ServerInit /\ call = NoCall

\* one of the clients' MaxReqs requests arrives, drawn from reqs
ChatArrives(reqs) ==
    /\ nreqs < MaxReqs
    /\ nreqs' = nreqs + 1
    /\ \E req \in reqs : ChatRequest(req)
SyncArrives(reqs) ==
    /\ nreqs < MaxReqs
    /\ nreqs' = nreqs + 1
    /\ \E req \in reqs : SyncRequest(req)
\* an await of a suspended handler settles
FetchSettles ==
    \E h \in BagToSet(inflight) : \E o \in FetchOutcomes : FetchSettle(h, o[1], o[2])
PagesTextSettles == \E h \in BagToSet(inflight) : PagesText(h)
PostsTextSettles == \E h \in BagToSet(inflight) : PostsText(h)
PagesJsonSettles == \E h \in BagToSet(inflight) : \E b \in PagesBodies : PagesJson(h, b)
PostsJsonSettles == \E h \in BagToSet(inflight) : \E b \in PostsBodies : PostsJson(h, b)

\* The server under retrieval questions and explicit syncs; the clock advances by a
\* whole cooldown at a time
Next ==
    \/ ChatArrives({PricingChat, SiteIdChat})
    \/ SyncArrives({SiteIdSync, NoUrlSync})
    \/ FetchSettles
    \/ PagesTextSettles
    \/ PostsTextSettles
    \/ PagesJsonSettles
    \/ PostsJsonSettles
    \/ Tick(SYNC_COOLDOWN_MS)

Spec == Init /\ [][Next]_vars

\* The chat endpoint alone, under every kind of message
NextChat ==
    \/ ChatArrives({WakeChat, BookChat, BookNoUrlChat, PricingChat})
    \/ FetchSettles
    \/ PagesTextSettles
    \/ PostsTextSettles
    \/ PagesJsonSettles
    \/ PostsJsonSettles
    \/ Tick(SYNC_COOLDOWN_MS)

SpecChat == Init /\ [][NextChat]_vars

\* one visitor chatting: each message is sent once the previous one is answered
VisitorChats(reqs) ==
    /\ inflight = EmptyBag
    /\ ChatArrives(reqs)

\* The auto-sync of the chat endpoint under every source of a base URL
NextAuto ==
    \/ VisitorChats({SiteUrlChat, PageUrlChat, PricingChat, SiteIdChat})
    \/ FetchSettles
    \/ PagesTextSettles
    \/ PostsTextSettles
    \/ PagesJsonSettles
    \/ PostsJsonSettles
    \/ Tick(SYNC_COOLDOWN_MS)

SpecAuto == Init /\ [][NextAuto]_vars

\* the requests of one client since its rate window began, 0 when it has none
Counted(ip) ==
    IF ip \in DOMAIN rateMap /\ now <= rateMap[ip].resetAt THEN rateMap[ip].count ELSE 0

\* a request of a flood from one client arrives: the flood goes on until the client is
\* MaxOver requests over the limit of its window; it is made of sync requests without a
\* siteUrl and, as long as the server has logged no chat and started no sync, of the
\* requests of chats and syncs
Flood(chats, syncs) ==
    /\ Counted(ClientAddr) < RATE_MAX + MaxOver
    /\ UNCHANGED nreqs
    /\ \/ \E req \in chats : chatLogs = <<>> /\ fetchLog = <<>> /\ ChatRequest(req)
       \/ \E req \in syncs : chatLogs = <<>> /\ fetchLog = <<>> /\ SyncRequest(req)
       \/ SyncRequest(NoUrlSync)

\* The server under a flood of requests from one client; the clock advances by a whole
\* rate window at a time
NextRate ==
    \/ Flood({PricingChat}, {SiteIdSync})
    \/ FetchSettles
    \/ PagesTextSettles
    \/ PostsTextSettles
    \/ PagesJsonSettles
    \/ PostsJsonSettles
    \/ Tick(RATE_WINDOW_MS)

SpecRate == Init /\ [][NextRate]_vars

\* a chat of a long conversation of one client arrives: the client goes on until it is
\* MaxOver requests over the limit of its window; the first message of a window is a
\* booking request or a question, the others are the wake phrase
LogChatArrives ==
    /\ Counted(ClientAddr) < RATE_MAX + MaxOver
    /\ UNCHANGED nreqs
    /\ IF Counted(ClientAddr) = 0
       THEN \E req \in {BookChat, SiteIdChat} : ChatRequest(req)
       ELSE ChatRequest(WakeChat)

\* the client waits until its rate window is over, often enough to fill the log
LogWait ==
    /\ Counted(ClientAddr) >= RATE_MAX
    /\ now + RATE_WINDOW_MS + 1
          <= StartTime + ((LOG_MAX \div RATE_MAX) + MaxTicks) * (RATE_WINDOW_MS + 1)
    /\ now' = now + RATE_WINDOW_MS + 1
    /\ lastRes' = NoResponse
    /\ UNCHANGED <<rateMap, siteStore, syncState, chatLogs, inflight, nreqs, fetchLog, call,
                   cleaned>>

\* The chat log under a conversation longer than the log
NextLog ==
    \/ LogChatArrives
    \/ LogWait

SpecLog == Init /\ [][NextLog]_vars

\* ------------------------------------------------------------------------
\* getSiteKey on its own
\* ------------------------------------------------------------------------

KeyPrefixes == {<<>>, <<"w","w","w",".">>, <<"W","W","W",".">>, <<"w","w","w",".","w","w","w",".">>, <<" ">>}
KeyHosts == {<<>>, <<"e","x","a","m","p","l","e",".","c","o","m">>, <<"S","h","o","p",".","E","x","a","m","p","l","e",".","c","o","m">>, <<"w","w","w","x",".","i","o">>}
KeySuffixes == {<<>>, <<" ">>}
KeySiteIds == {<<>>, <<"S","1">>, <<" ","s","1"," ">>}

KeyArgs ==
    {[siteId |-> id, domain |-> p \o h \o x] :
        id \in KeySiteIds, p \in KeyPrefixes, h \in KeyHosts, x \in KeySuffixes}

\* getSiteKey({ siteId, domain }) and getSiteKey({ siteId, domain: "www." + domain })
CallGetSiteKey ==
    /\ call.fn = ""
    /\ call' = [fn  |-> "getSiteKey",
                arg |-> call.arg,
                out |-> [key    |-> getSiteKey(call.arg.siteId, call.arg.domain),
                         wwwKey |-> getSiteKey(call.arg.siteId, <<"w","w","w",".">> \o call.arg.domain)]]
    /\ UNCHANGED <<now, rateMap, siteStore, syncState, chatLogs, inflight, nreqs, lastRes,
                   fetchLog, cleaned>>

InitKey == ServerInit /\ \E arg \in KeyArgs : call = [NoCall EXCEPT !.arg = arg]

NextKey == CallGetSiteKey

SpecKey == InitKey /\ [][NextKey]_vars

\* ------------------------------------------------------------------------
\* pickTopDocs on its own
\* ------------------------------------------------------------------------

PickDoc(id, text) ==
    [id |-> id, title |-> "Untitled", url |-> "https://example.com/?p=" \o ToString(id),
     text |-> text]

PickDocs ==
    {PickDoc(1, <<"P","r","i","c","i","n","g"," ","a","n","d"," ","p","l","a","n","s"," ","f","o","r"," ","h","o","s","t","i","n","g">>),
     PickDoc(2, <<"O","u","r"," ","P","L","A","N","S">>),
     PickDoc(3, <<"C","o","n","t","a","c","t"," ","u","s"," ","t","o","d","a","y">>),
     PickDoc(4, <<"p","r","i","c","i","n","g"," ","p","l","a","n","s",","," ","p","r","i","c","i","n","g"," ","c","o","n","t","a","c","t">>),
     PickDoc(5, <<"t","o"," ","b","e"," ","o","r"," ","n","o","t">>)}

PickQueries ==
    {<<>>, <<"p","r","i","c","i","n","g">>, <<"P","l","a","n","s"," ","P","r","i","c","i","n","g">>, <<"p","r","i","c","i","n","g"," ","p","r","i","c","i","n","g"," ","p","l","a","n","s">>, <<"u","s"," ","t","o">>,
     <<" "," ","c","o","n","t","a","c","t","\t","p","l","a","n","s"," ">>, <<"h","o","s","t","i","n","g"," ","c","o","n","t","a","c","t"," ","p","l","a","n","s"," ","t","o","d","a","y">>, <<"P","L","A","N"," ","o","r">>}

\* the lists of at most MaxDocs different documents
PickPages ==
    {pages \in UNION {[1..n -> PickDocs] : n \in 0..MaxDocs} :
        \A i, j \in DOMAIN pages : i # j => pages[i] # pages[j]}

\* a store without an entry for the site key, and the stores with one
PickStores ==
    {EmptyMap} \cup {mapSet(EmptyMap, DefaultKey, storeEntry(pages, StartTime, <<>>)) :
                        pages \in PickPages}

PickArgs == {[store |-> st, siteKey |-> DefaultKey, query |-> q] :
                st \in PickStores, q \in PickQueries}

\* pickTopDocs(siteKey, query, 3)
CallPickTopDocs ==
    /\ call.fn = ""
    /\ call' = [fn  |-> "pickTopDocs",
                arg |-> call.arg,
                out |-> pickTopDocs(call.arg.store, call.arg.siteKey, call.arg.query, TOP_K)]
    /\ UNCHANGED <<now, rateMap, siteStore, syncState, chatLogs, inflight, nreqs, lastRes,
                   fetchLog, cleaned>>

InitPick == ServerInit /\ \E arg \in PickArgs : call = [NoCall EXCEPT !.arg = arg]

NextPick == CallPickTopDocs

SpecPick == InitPick /\ [][NextPick]_vars

\* ------------------------------------------------------------------------
\* cleanHtmlToText on its own
\* ------------------------------------------------------------------------

CleanPieces ==
    {<<"<","b",">">>, <<"a">>, <<" ">>, <<"<">>, <<">">>, <<"<","b","r","/",">">>, <<"x"," "," ","y">>, <<"<","s","c","r","i","p","t",">">>, <<"<","/","s","c","r","i","p","t",">">>,
     <<"<","p"," ","c","l","a","s","s">>}

RECURSIVE concat(_)
concat(pieces) == IF pieces = <<>> THEN <<>> ELSE Head(pieces) \o concat(Tail(pieces))

\* the texts made of at most MaxPieces pieces
CleanArgs == {concat(ps) : ps \in UNION {[1..n -> CleanPieces] : n \in 0..MaxPieces}}

\* cleanHtmlToText(html)
CallCleanHtmlToText ==
    /\ call.fn = ""
    /\ call' = [fn |-> "cleanHtmlToText", arg |-> call.arg, out |-> cleanHtmlToText(call.arg)]
    /\ UNCHANGED <<now, rateMap, siteStore, syncState, chatLogs, inflight, nreqs, lastRes,
                   fetchLog, cleaned>>

InitClean == ServerInit /\ \E html \in CleanArgs : call = [NoCall EXCEPT !.arg = html]

NextClean == CallCleanHtmlToText

SpecClean == InitClean /\ [][NextClean]_vars

\* ------------------------------------------------------------------------
\* Properties
\* ------------------------------------------------------------------------

\* C1: for one client address, a request that finds no entry or an expired window is
\* allowed and starts a window of 60 seconds with count 1; every other request counts
\* one more in the same window and is allowed exactly when it is among the first 60 of
\* the window: the 61st and every later one is answered 429.
C1_RateWindow ==
    [][rateMap' # rateMap =>
         LET ip == ClientAddr
             fresh == ip \notin DOMAIN rateMap \/ now > rateMap[ip].resetAt
             allowed == lastRes'.status # 429
         IN  IF fresh
             THEN allowed /\ rateMap'[ip] = [count |-> 1, resetAt |-> now + 60000]
             ELSE /\ rateMap'[ip].resetAt = rateMap[ip].resetAt
                  /\ rateMap'[ip].count = rateMap[ip].count + 1
                  /\ allowed <=> rateMap[ip].count < 60]_vars

\* the 61st request of a window has just been rejected
C1_Rejected61st ==
    /\ lastRes.status = 429
    /\ ClientAddr \in DOMAIN rateMap
    /\ rateMap[ClientAddr].count = 61
    /\ now <= rateMap[ClientAddr].resetAt

\* C2: a request rejected by the rate limiter, on /v1/chat or /v1/site/sync, appends no
\* chat log entry, starts no sync and leaves the site index and the cooldown state as
\* they were.
C2_RejectedNoEffect ==
    [][lastRes'.status = 429 =>
         UNCHANGED <<chatLogs, fetchLog, inflight, siteStore, syncState>>]_vars

\* a chat request that would have been logged and would have started an auto-sync has
\* just been rejected
C2_RejectedChat ==
    /\ lastRes.status = 429
    /\ lastRes.route = "chat"
    /\ lastRes.req = PricingChat
    /\ siteStore = EmptyMap
    /\ syncState = EmptyMap

\* the site key a response was computed for
KeyOf(res) == IF res.route = "sync" THEN res.payload.siteKey ELSE res.payload.meta.siteKey

\* a fetch of the sync h is suspended in has returned a non-success status
FetchFailed(h) == h.res # NoRes /\ (~h.res[1].ok \/ ~h.res[2].ok)

\* the handler h takes the step
Steps(h) == CopiesIn(h, inflight') < CopiesIn(h, inflight)

\* C3: a sync whose pages fetch or posts fetch fails (non-success status or network
\* error) fails as a whole, from /v1/site/sync and from the chat auto-sync alike: none
\* of its steps changes the site index, it ends in failure (500 on /v1/site/sync), and
\* an index entry changes only in the step in which a sync of its key succeeds.
C3_FailedSyncNoUpdate ==
    [][/\ \A h \in BagToSet(inflight) :
            Steps(h) /\ (FetchFailed(h) \/ (h.pc = "fetch" /\ lastRes' # NoResponse)) =>
               /\ siteStore' = siteStore
               /\ lastRes' # NoResponse =>
                    /\ lastRes'.sync = "failed"
                    /\ lastRes'.status = IF h.route = "sync" THEN 500 ELSE 200
       /\ \A k \in DOMAIN siteStore' :
            mapGet(siteStore', k) # mapGet(siteStore, k) =>
               lastRes'.sync = "ok" /\ KeyOf(lastRes') = k]_vars

\* an auto-sync of a chat request has just failed on a site key that has an index entry
C3_FailedOverEntry ==
    /\ lastRes.sync = "failed"
    /\ lastRes.route = "chat"
    /\ KeyOf(lastRes) \in DOMAIN siteStore

\* C4: the document list and the updatedAt of a site key are written together by one
\* sync: an entry changes only in the step in which one sync of that key returns, and
\* is then the whole result of that sync (its documents, the time of the step, its base
\* URL), also while other syncs of the key are in flight.
C4_AtomicReplace ==
    [][\A k \in DOMAIN siteStore' :
         mapGet(siteStore', k) # mapGet(siteStore, k) =>
            \E h \in BagToSet(inflight) :
               /\ h.pc = "postsJson"
               /\ h.siteKey = k
               /\ inflight' = inflight (-) One(h)
               /\ \E posts \in PostsBodies :
                     siteStore'[k] = [pages |-> buildDocs(h.pagesJson.items \o posts.items),
                                      updatedAt |-> now,
                                      siteUrl |-> h.base]]_vars

\* a chat reply has just been built from the entry of a site key while another sync of
\* that key has read its pages and not yet its posts
C4_ReadDuringSync ==
    /\ lastRes.route = "chat"
    /\ "sources" \in lastRes.payload.keys
    /\ \E h \in BagToSet(inflight) : h.pc = "postsJson" /\ h.siteKey = KeyOf(lastRes)

\* the chat requests of SpecChat
Chats == {WakeChat, BookChat, BookNoUrlChat, PricingChat}

\* the request r arrives in the step: it is answered at once or its handler suspends
Arrived(r) ==
    /\ nreqs' = nreqs + 1
    /\ IF lastRes' # NoResponse THEN lastRes'.req = r
       ELSE \E h \in BagToSet(inflight') :
               h.req = r /\ h.pc = "fetch" /\ CopiesIn(h, inflight') > CopiesIn(h, inflight)

\* how far the awaits of syncSiteContent are from its call
AwaitRank == [fetch |-> 1, pagesText |-> 2, postsText |-> 3, pagesJson |-> 2, postsJson |-> 3]

\* C5: every /v1/chat request that passes the rate limiter gets exactly one reply and
\* never an error: each step that takes a request in either answers it or leaves its
\* handler at an await of the auto-sync, a handler leaves an await only to answer its
\* request or to wait at a later await (so it answers once its fetches and body reads
\* have completed or failed), and every answer is a 200 with a replyText and no error,
\* whichever branch is taken and however the auto-sync ends.
C5_OneReply ==
    [][/\ BagCardinality(inflight') + (IF lastRes' # NoResponse THEN 1 ELSE 0)
            = BagCardinality(inflight) + (IF nreqs' # nreqs THEN 1 ELSE 0)
       /\ lastRes' # NoResponse /\ lastRes'.status # 429 =>
            /\ lastRes'.route = "chat"
            /\ lastRes'.status = 200
            /\ "replyText" \in lastRes'.payload.keys
            /\ lastRes'.payload.replyText # ""
            /\ "error" \notin lastRes'.payload.keys
       /\ \A h \in BagToSet(inflight') : h.pc \in DOMAIN AwaitRank
       /\ \A h \in BagToSet(inflight) :
            Steps(h) =>
               IF lastRes' # NoResponse
               THEN lastRes'.req = h.req /\ lastRes'.sync \in {"ok", "failed"}
               ELSE \E g \in BagToSet(inflight') :
                       /\ CopiesIn(g, inflight') > CopiesIn(g, inflight)
                       /\ g.req = h.req
                       /\ AwaitRank[g.pc] > AwaitRank[h.pc]]_vars

\* a chat request whose auto-sync failed has just been answered with a reply
C5_RepliedAfterFailedSync ==
    /\ lastRes.route = "chat"
    /\ lastRes.sync = "failed"
    /\ lastRes.status = 200
    /\ "replyText" \in lastRes.payload.keys

\* the text of the request is the wake phrase
IsWake(r) ==
    toLowerCase(trim(r.body.text)) \in {<<"h","e","y"," ","j","a","r","v","i","s">>, <<"h","e","y"," ","j","a","r","v","i","s",".">>, <<"h","e","y"," ","j","a","r","v","i","s","!">>}

\* the text of the request holds a booking word
HasBookingWord(r) ==
    \E w \in {<<"b","o","o","k">>, <<"b","o","o","k","i","n","g">>, <<"a","p","p","o","i","n","t","m","e","n","t">>, <<"s","c","h","e","d","u","l","e">>, <<"r","e","s","e","r","v","e">>,
              <<"c","o","n","s","u","l","t","a","t","i","o","n">>} : includes(toLowerCase(r.body.text), w)

\* C9: a chat request whose text is the wake phrase is answered at once with exactly
\* "How can I help you?", without sources, actions or meta, and nothing else happens:
\* no sync is started and the site index and the cooldown state stay as they are,
\* whatever the index holds for the site.
C9_WakeReply ==
    [][\A r \in Chats :
         Arrived(r) /\ IsWake(r) =>
            /\ lastRes'.status = 200
            /\ lastRes'.payload.keys = {"replyText"}
            /\ lastRes'.payload.replyText = "How can I help you?"
            /\ UNCHANGED <<siteStore, syncState, fetchLog, inflight>>]_vars

\* the wake phrase has just been answered for a site whose index holds documents
C9_WakeOverIndex ==
    /\ lastRes.req = WakeChat
    /\ lastRes.payload.replyText = "How can I help you?"
    /\ hasSynced(siteStore, chatSiteKey(WakeChat.body))

\* C10: a chat request with booking intent and no wake phrase is answered at once by
\* the booking branch: with a booking URL (non-empty once trimmed) the reply carries
\* exactly one open_url action with that URL, else it is the setup message without
\* action; no sync is started and the reply holds nothing of the index (no sources, no
\* meta).
C10_BookingReply ==
    [][\A r \in Chats :
         Arrived(r) /\ ~IsWake(r) /\ HasBookingWord(r) =>
            /\ lastRes'.status = 200
            /\ IF trim(r.body.bookingUrl) # <<>>
               THEN /\ lastRes'.payload.keys = {"replyText", "actions"}
                    /\ lastRes'.payload.actions =
                         <<[type |-> "open_url", url |-> trim(r.body.bookingUrl)]>>
               ELSE /\ lastRes'.payload.keys = {"replyText"}
                    /\ lastRes'.payload.actions = <<>>
                    /\ lastRes'.payload.replyText =
                         "Sure -- I can help you book. Please set your Booking Page URL in WordPress -> Jarvis settings."
            /\ UNCHANGED <<siteStore, syncState, fetchLog, inflight>>]_vars

\* a booking request without a booking URL has just been answered for a site that has
\* no index yet and a base URL to sync from
C10_BookingBeforeSync ==
    /\ lastRes.req = BookNoUrlChat
    /\ lastRes.status = 200
    /\ siteStore = EmptyMap
    /\ fetchLog = <<>>

\* C6: any two sync attempts (calls of syncSiteContent, each a pair of outbound
\* fetches) for the same site key, from /v1/chat or /v1/site/sync, are at least the
\* cooldown of 5 minutes apart.
C6_CooldownBetweenSyncs ==
    \A i, j \in DOMAIN fetchLog :
        i < j /\ fetchLog[i].siteKey = fetchLog[j].siteKey =>
            fetchLog[j].at - fetchLog[i].at >= 5 * 60000

\* C8: two requests with the same domain and the same site identifier are handled under
\* the same site key, whichever of /v1/chat and /v1/site/sync they go to: a chat reply
\* is computed for the key of every sync started with those two inputs.
C8_KeyOfDomainAndSiteId ==
    \A i \in DOMAIN fetchLog :
        /\ lastRes.route = "chat"
        /\ "meta" \in lastRes.payload.keys
        /\ fetchLog[i].req.body.domain = lastRes.req.body.domain
        /\ fetchLog[i].req.body.siteId = lastRes.req.body.siteId
        => fetchLog[i].siteKey = lastRes.payload.meta.siteKey

\* C7: for every domain d and every site identifier, getSiteKey with domain d and
\* getSiteKey with domain "www." + d return the same key.
C7_WwwSameKey == call.fn = "getSiteKey" => call.out.key = call.out.wwwKey

\* the chat requests of SpecAuto, each with the site key it is handled under and the
\* base URL it gives: the site URL once trimmed and without its final slash, else the
\* origin of the page URL, else https:// and the domain, else none
AutoChats ==
    {[req |-> SiteUrlChat, siteKey |-> <<"e","x","a","m","p","l","e",".","c","o","m">>, base |-> <<"h","t","t","p","s",":","/","/","E","x","a","m","p","l","e",".","c","o","m","/","w","p">>],
     [req |-> PageUrlChat, siteKey |-> <<"e","x","a","m","p","l","e",".","c","o","m">>, base |-> <<"h","t","t","p","s",":","/","/","s","h","o","p",".","e","x","a","m","p","l","e",".","c","o","m">>],
     [req |-> PricingChat, siteKey |-> <<"e","x","a","m","p","l","e",".","c","o","m">>, base |-> <<"h","t","t","p","s",":","/","/","e","x","a","m","p","l","e",".","c","o","m">>],
     [req |-> SiteIdChat, siteKey |-> <<"s","1">>, base |-> <<>>]}

\* the site key k has no indexed documents
NoDocs(k) == k \notin DOMAIN siteStore \/ siteStore[k].pages = <<>>

\* the throttle allows a sync of the site key k: no sync time is recorded or more than
\* 5 minutes have passed since the recorded one
ThrottleAllows(k) == k \notin DOMAIN syncState \/ now - syncState[k].lastSyncAt > 5 * 60000

\* C11: a chat request that reaches the retrieval stage starts a sync (one pair of
\* fetches, from the base URL: the site URL if given, else the origin of the page URL,
\* else https:// and the normalized domain) exactly when its site key has no indexed
\* documents, the throttle allows it and it has a base URL; it starts none otherwise,
\* and no later step of its handler starts another.
C11_AutoSyncOnce ==
    [][/\ \A c \in AutoChats :
            Arrived(c.req) =>
               IF NoDocs(c.siteKey) /\ ThrottleAllows(c.siteKey) /\ c.base # <<>>
               THEN /\ fetchLog' = Append(fetchLog, [req |-> c.req, siteKey |-> c.siteKey,
                                                     base |-> c.base, at |-> now])
                    /\ BagCardinality(inflight') = BagCardinality(inflight) + 1
                    /\ lastRes' = NoResponse
               ELSE /\ fetchLog' = fetchLog
                    /\ inflight' = inflight
                    /\ lastRes'.req = c.req
       /\ nreqs' = nreqs => fetchLog' = fetchLog]_vars

\* a chat request has started a sync from the origin of its page URL, more than 5
\* minutes after a sync of its site key that stored no document
C11_RetryFromPageUrl ==
    \E i \in DOMAIN fetchLog :
        /\ fetchLog[i].req = PageUrlChat
        /\ fetchLog[i].base = <<"h","t","t","p","s",":","/","/","s","h","o","p",".","e","x","a","m","p","l","e",".","c","o","m">>
        /\ fetchLog[i].siteKey \in DOMAIN syncState
        /\ fetchLog[i].at - syncState[fetchLog[i].siteKey].lastSyncAt > 5 * 60000
        /\ siteStore[fetchLog[i].siteKey].pages = <<>>

\* the item p of the remote site has a cleaned body of at least 40 characters
LongEnough(p) == Len(cleaned[p.html]) >= 40

\* the documents list docs holds the items `items` in order, each with its cleaned body
HoldsItems(docs, items) ==
    /\ Len(docs) = Len(items)
    /\ \A i \in DOMAIN items :
          /\ docs[i].id = items[i].id
          /\ docs[i].url = items[i].link
          /\ docs[i].text = cleaned[items[i].html]

\* C12: the step of a sync that succeeds leaves under its site key exactly the
\* documents of that sync: the pages it read and then the posts it read, in order,
\* without the items whose cleaned body is shorter than 40 characters, and nothing of
\* the entry it replaces; every stored document has a cleaned body of at least 40
\* characters, and a sync that reads the two pages (one of them too short) and the one
\* post stores exactly two documents.
C12_StoredDocs ==
    [][/\ siteStore' # siteStore =>
            \E h \in BagToSet(inflight) :
               /\ Steps(h)
               /\ h.pc = "postsJson"
               /\ lastRes'.sync = "ok"
               /\ \E posts \in PostsBodies :
                     /\ HoldsItems(siteStore'[h.siteKey].pages,
                                   SelectSeq(h.pagesJson.items \o posts.items, LongEnough))
                     /\ h.pagesJson.items = <<PricingPage, ContactPage>>
                        /\ posts.items = <<PlansPost>> =>
                           Len(siteStore'[h.siteKey].pages) = 2
               /\ \A k \in DOMAIN siteStore' \ {h.siteKey} : siteStore'[k] = siteStore[k]
       /\ \A k \in DOMAIN siteStore' :
            \A i \in DOMAIN siteStore'[k].pages : Len(siteStore'[k].pages[i].text) >= 40]_vars

\* a sync that read the pricing page, the contact page (too short once cleaned) and the
\* plans post has just stored its two documents, as the last of two syncs of its site key
C12_TwoOfThreeStored ==
    /\ lastRes.sync = "ok"
    /\ \E k \in DOMAIN siteStore :
          /\ Len(siteStore[k].pages) = 2
          /\ siteStore[k].pages[1].id = PricingPage.id
          /\ siteStore[k].pages[2].id = PlansPost.id
          /\ Len(cleaned[ContactPage.html]) < 40
          /\ \E i, j \in DOMAIN fetchLog : i < j /\ fetchLog[i].siteKey = k
                                                 /\ fetchLog[j].siteKey = k
          /\ inflight = EmptyBag

\* the query tokens: the runs a..b of characters of q between white space
Tokens(q) ==
    {t \in (1..Len(q)) \X (1..Len(q)) :
        /\ t[1] <= t[2]
        /\ \A i \in t[1]..t[2] : ~IsSpace(q[i])
        /\ t[1] = 1 \/ IsSpace(q[t[1] - 1])
        /\ t[2] = Len(q) \/ IsSpace(q[t[2] + 1])}

\* 2 points for each token of the lower-cased query that is at least 3 characters long
\* and occurs in the lower-cased body
Points(query, body) ==
    LET q == toLowerCase(query)
    IN  2 * Cardinality({t \in Tokens(q) :
                            /\ t[2] - t[1] + 1 >= 3
                            /\ includes(toLowerCase(body), SubSeq(q, t[1], t[2]))})

\* C13: pickTopDocs returns the documents of the site's index that score more than
\* zero, the best 3 of them at most, by score descending and for equal scores in the
\* order of the index, and the empty list when the site has no entry or an empty one;
\* the score of a document is 2 points per query token of at least 3 characters that
\* occurs in its lower-cased body.
C13_TopDocs ==
    call.fn = "pickTopDocs" =>
        LET site == mapGet(call.arg.store, call.arg.siteKey)
            pages == IF site = Undefined THEN <<>> ELSE site.pages
            out == call.out
            score(i) == Points(call.arg.query, pages[i].text)
            hits == {i \in DOMAIN pages : score(i) > 0}
            Before(a, b) == score(a) > score(b) \/ (score(a) = score(b) /\ a < b)
        IN  /\ Len(out) = Min({3, Cardinality(hits)})
            /\ \E f \in [DOMAIN out -> hits] :
                  /\ \A j \in DOMAIN out :
                        /\ out[j].id = pages[f[j]].id
                        /\ out[j].text = pages[f[j]].text
                        /\ out[j].url = pages[f[j]].url
                        /\ out[j].title = pages[f[j]].title
                        /\ out[j].score = score(f[j])
                  /\ \A j, k \in DOMAIN out : j < k => Before(f[j], f[k])
                  /\ \A j \in DOMAIN out :
                        \A i \in hits : (\A k \in DOMAIN out : f[k] # i) => Before(f[j], i)

\* pickTopDocs has returned 3 of 4 documents, the last of the index first and two
\* documents of equal score after it
C13_FourthRankedFirst ==
    /\ call.fn = "pickTopDocs"
    /\ call.arg.siteKey \in DOMAIN call.arg.store
    /\ Len(call.arg.store[call.arg.siteKey].pages) = 4
    /\ Len(call.out) = 3
    /\ call.out[1].id = call.arg.store[call.arg.siteKey].pages[4].id
    /\ call.out[1].score > call.out[2].score
    /\ call.out[2].score = call.out[3].score

\* C14: the chat log holds at most 200 entries; every chat request that passes the rate
\* limiter (wake phrase, booking or question) appends exactly one entry, its own, at the
\* end, and when the log held 200 entries the oldest one is removed, nothing else; no
\* other step changes the log.
C14_BoundedFifo ==
    [][/\ Len(chatLogs') <= 200
       /\ IF rateMap' # rateMap /\ lastRes'.status # 429
          THEN LET e == chatLogs'[Len(chatLogs')]
                   kept == IF Len(chatLogs) < 200 THEN chatLogs ELSE Tail(chatLogs)
               IN  /\ chatLogs' = Append(kept, e)
                   /\ e.ts = now
                   /\ e.sessionId = lastRes'.req.body.sessionId
                   /\ e.text = trim(lastRes'.req.body.text)
          ELSE chatLogs' = chatLogs]_vars

\* a booking request has just been logged at the end of a full log from which the
\* entries of the first rate window are gone
C14_OldestEvicted ==
    /\ Len(chatLogs) = 200
    /\ chatLogs[1].ts > StartTime
    /\ lastRes.req = BookChat
    /\ lastRes.status = 200
    /\ chatLogs[200].text = <<"I"," ","w","a","n","t"," ","t","o"," ","b","o","o","k"," ","a","n"," ","a","p","p","o","i","n","t","m","e","n","t">>
    /\ chatLogs[200].ts = now

\* the site key the requests of SpecAuto are answered under
AnswerKey(r) == IF r = SiteIdChat THEN <<"s","1">> ELSE <<"e","x","a","m","p","l","e",".","c","o","m">>

\* C15: a chat reply of the retrieval stage (in the state it is sent in) has
\* meta.learned true and the sources list naming the documents retrieval returns, in
\* rank order, exactly when retrieval returns at least one document; otherwise it is
\* the "still learning" message with meta.learned false and no sources. A chat for a
\* site that has no indexed content and gives no base URL is answered "still learning"
\* without a sync, and no fetch is ever issued for it.
C15_LearnedIffFound ==
    /\ lastRes # NoResponse /\ lastRes.route = "chat" /\ lastRes.status = 200 =>
         LET r == lastRes.req
             top == pickTopDocs(siteStore, AnswerKey(r), trim(r.body.text), 3)
             reply == lastRes.payload
         IN  IF Len(top) >= 1
             THEN /\ reply.keys = {"replyText", "sources", "meta"}
                  /\ reply.meta.learned = TRUE
                  /\ Len(reply.sources) = Len(top)
                  /\ \A i \in DOMAIN top :
                        reply.sources[i] = [title |-> top[i].title, url |-> top[i].url]
             ELSE /\ reply.keys = {"replyText", "meta"}
                  /\ reply.meta.learned = FALSE
                  /\ reply.sources = <<>>
                  /\ reply.replyText = "I'm still learning this website. Try asking about services, pricing, contact, or booking -- and I'll guide you."
    /\ \A i \in DOMAIN fetchLog : fetchLog[i].req # SiteIdChat
    /\ lastRes.req = SiteIdChat /\ NoDocs(AnswerKey(SiteIdChat)) =>
         /\ lastRes.sync = "none"
         /\ lastRes.payload.meta.learned = FALSE

\* a question has just been answered from two documents of the index, both cited
C15_TwoSources ==
    /\ lastRes.req = PricingChat
    /\ lastRes.payload.meta.learned = TRUE
    /\ Len(lastRes.payload.sources) = 2
    /\ lastRes.payload.sources[1].url = PricingPage.link
    /\ lastRes.payload.sources[2].url = PlansPost.link

\* C16: for every text, cleanHtmlToText returns a string without any "<" character,
\* also for a text with an unclosed tag or a "<" that belongs to no tag.
C16_NoMarkupLeft ==
    call.fn = "cleanHtmlToText" => \A i \in DOMAIN call.out : call.out[i] # "<"

\* the syncs of the site key k that chat requests have in flight
ChatSyncs(k) == {h \in BagToSet(inflight) : h.route = "chat" /\ h.siteKey = k}

\* C17: nothing coalesces the syncs of a site key: a chat request for a site key
\* without indexed documents that arrives while the sync of another chat request for
\* that key is in flight, and that the throttle allows, starts a sync of its own at
\* once, so that both are in flight together.
C17_NoCoalescing ==
    [][\A c \in AutoChats :
         /\ Arrived(c.req)
         /\ c.base # <<>>
         /\ NoDocs(c.siteKey)
         /\ ThrottleAllows(c.siteKey)
         /\ ChatSyncs(c.siteKey) # {}
         => /\ ChatSyncs(c.siteKey) \subseteq BagToSet(inflight')
            /\ BagCardinality(inflight') = BagCardinality(inflight) + 1
            /\ Len(fetchLog') = Len(fetchLog) + 1
            /\ fetchLog'[Len(fetchLog')].siteKey = c.siteKey
            /\ lastRes' = NoResponse]_vars

\* two chat requests for a site key without indexed documents have their syncs in
\* flight at the same time
C17_TwoSyncsInFlight ==
    \E k \in {c.siteKey : c \in AutoChats} :
        /\ NoDocs(k)
        /\ BagCardinality(inflight) >= 2
        /\ \A h \in BagToSet(inflight) : h \in ChatSyncs(k)

\* C18: the cooldown state changes only in the step in which a sync succeeds, for the
\* site key of that sync and together with its index entry, both stamped with the time
\* of the step; a sync that fails, a chat answered without a sync and a request that
\* is refused leave it as it is, so a chat request for a site key whose auto-sync
\* failed, still without documents and without a recorded sync, starts a sync again.
C18_CooldownOnlyOnSuccess ==
    [][/\ syncState' # syncState =>
            /\ lastRes'.sync = "ok"
            /\ \E h \in BagToSet(inflight) :
                  /\ Steps(h)
                  /\ h.siteKey = KeyOf(lastRes')
                  /\ syncState'[h.siteKey] = [lastSyncAt |-> now]
                  /\ siteStore'[h.siteKey].updatedAt = now
                  /\ siteStore'[h.siteKey].siteUrl = h.base
                  /\ \A k \in DOMAIN syncState' \ {h.siteKey} :
                        k \in DOMAIN syncState /\ syncState'[k] = syncState[k]
       /\ lastRes'.sync # "ok" => syncState' = syncState
       /\ \A c \in AutoChats :
            /\ Arrived(c.req)
            /\ c.base # <<>>
            /\ NoDocs(c.siteKey)
            /\ c.siteKey \notin DOMAIN syncState
            /\ \E i \in DOMAIN fetchLog : fetchLog[i].siteKey = c.siteKey
            => fetchLog' = Append(fetchLog, [req |-> c.req, siteKey |-> c.siteKey,
                                             base |-> c.base, at |-> now])]_vars

\* a chat request has started a sync of a site key after the auto-sync of an earlier
\* chat request for that key has failed
C18_RetryAfterFailure ==
    /\ Len(fetchLog) = 2
    /\ fetchLog[1].siteKey = fetchLog[2].siteKey
    /\ fetchLog[1].req.body.text # <<>>
    /\ fetchLog[2].req.body.text # <<>>
    /\ syncState = EmptyMap
    /\ BagCardinality(inflight) = 1
    /\ \E h \in BagToSet(inflight) : h.pc = "fetch" /\ h.req = fetchLog[2].req
    /\ nreqs = 2

\* C19: for every site key, the index has an entry exactly when the cooldown state has
\* one: both are created in the same step and neither is ever removed.
C19_EntriesTogether ==
    [][/\ DOMAIN siteStore = DOMAIN syncState
       /\ DOMAIN siteStore' = DOMAIN syncState'
       /\ DOMAIN siteStore \subseteq DOMAIN siteStore']_vars

\* a sync has just written the index entry and the cooldown entry of a site key, the
\* only key that has either, as the later of two syncs of that key
C19_CreatedTogether ==
    /\ lastRes.sync = "ok"
    /\ DOMAIN siteStore = {KeyOf(lastRes)}
    /\ DOMAIN syncState = {KeyOf(lastRes)}
    /\ Len(fetchLog) = 2
    /\ fetchLog[1].siteKey = KeyOf(lastRes)
    /\ fetchLog[2].siteKey = KeyOf(lastRes)
    /\ fetchLog[1].at < fetchLog[2].at
    /\ inflight = EmptyBag
    /\ siteStore[KeyOf(lastRes)].updatedAt > fetchLog[2].at

\* C20: a sync that succeeds without keeping any document stores an empty index entry
\* and sets the cooldown all the same; a chat request for that site key then finds
\* nothing indexed, but as long as no more than 5 minutes have passed since that sync it
\* starts no sync and is answered "still learning", and once more than 5 minutes have
\* passed it starts a sync again.
C20_EmptySyncCoolsDown ==
    [][/\ \A h \in BagToSet(inflight) :
            Steps(h) /\ lastRes'.sync = "ok" =>
               /\ h.siteKey \in DOMAIN siteStore'
               /\ siteStore'[h.siteKey].pages = <<>> =>
                    /\ \A i \in DOMAIN h.pagesJson.items : ~LongEnough(h.pagesJson.items[i])
                    /\ siteStore'[h.siteKey] =
                         [pages |-> <<>>, updatedAt |-> now, siteUrl |-> h.base]
                    /\ syncState'[h.siteKey] = [lastSyncAt |-> now]
                    /\ lastRes'.payload.meta.learned = FALSE
       /\ \A c \in AutoChats :
            /\ Arrived(c.req)
            /\ c.base # <<>>
            /\ c.siteKey \in DOMAIN siteStore
            /\ siteStore[c.siteKey].pages = <<>>
            => IF now - syncState[c.siteKey].lastSyncAt > 5 * 60000
               THEN /\ Len(fetchLog') = Len(fetchLog) + 1
                    /\ fetchLog'[Len(fetchLog')].req = c.req
                    /\ lastRes' = NoResponse
               ELSE /\ fetchLog' = fetchLog
                    /\ inflight' = inflight
                    /\ lastRes'.payload.meta.learned = FALSE
                    /\ lastRes'.payload.keys = {"replyText", "meta"}
                    /\ lastRes'.payload.replyText = "I'm still learning this website. Try asking about services, pricing, contact, or booking -- and I'll guide you."]_vars

\* a chat request arriving exactly 5 minutes after a sync that kept no document has
\* just been answered "still learning" without a sync
C20_StillCoolingAtFiveMinutes ==
    /\ lastRes.route = "chat"
    /\ lastRes.sync = "none"
    /\ lastRes.payload.meta.learned = FALSE
    /\ KeyOf(lastRes) \in DOMAIN siteStore
    /\ siteStore[KeyOf(lastRes)].pages = <<>>
    /\ now - syncState[KeyOf(lastRes)].lastSyncAt = 5 * 60000

====
